---- MODULE Spec2Model ----
(***************************************************************************)
(* Model of the parquet_console terminal browser.                          *)
(*                                                                         *)
(*   Spec / FairSpec  the event loop of src/lib.rs: App::run alternates    *)
(*                    App::render and App::handle_events over the state    *)
(*                    State { view_state, exiting }.                       *)
(*   NavSpec          the three-pane selection state that src/views/*.rs   *)
(*                    read (active_pane, row_group_view_state,             *)
(*                    column_chunk_view_state); the App that owns those    *)
(*                    fields is not among the source files, its            *)
(*                    transitions are taken from spec.md section 4.1.      *)
(***************************************************************************)
EXTENDS Integers, Sequences, FiniteSets, TLC

VARIABLES
    pc,           \* position of App::run: "loop", "render", "events", "done"
    result,       \* "running", or how run ended: "Ok", "Err", "Panic"
    build,        \* "debug" (overflow checks on) or "release" (wrapping)
    view_state,   \* ViewState tag: "Loading" or "Displaying"
    metadata,     \* FileMetaData.row_groups: one column count per row group
    detail_mode,  \* ViewState::Displaying.2
    selected,     \* ViewState::Displaying.3, the selected row group
    exiting,      \* State.exiting
    drawn,        \* last frame flushed to the terminal: "none", "loading", "display"
    event,        \* the input the last handle_events call consumed
    prev,         \* the state the last handle_events call was entered with
    nav,          \* SelectionState of the three-pane App (NavSpec)
    nav_prev,     \* the SelectionState before the last NavSpec operation
    nav_op,       \* the last NavSpec operation
    load,         \* how the load in App::render ended: "none" until it ran
    proc,         \* position of main / run_tui: "install_hooks", "init", "run", "exited"
    hooks,        \* whether tui::install_hooks has set the panic and eyre hooks
    term,         \* terminal mode: [alt |-> alternate screen, raw |-> raw mode]
    exit_code,    \* process exit status once proc = "exited", -1 before
    chunk,        \* the ColumnChunkMetaData a projection is applied to (ColumnSpec)
    snapshot,     \* what the two projections returned for chunk
    sample_in,    \* the reader and column sample_column is called on (SampleSpec)
    sample_out    \* what sample_column returned

vars == <<pc, result, build, view_state, metadata, detail_mode, selected,
          exiting, drawn, event, prev, nav, nav_prev, nav_op, load, proc,
          hooks, term, exit_code, chunk, snapshot, sample_in, sample_out>>

appVars == <<pc, result, build, view_state, detail_mode, selected,
             exiting, drawn, event, prev, load>>

navVars == <<nav, nav_prev, nav_op>>

mainVars == <<proc, hooks, term, exit_code>>

columnVars == <<chunk, snapshot, sample_in, sample_out>>

----------------------------------------------------------------------------
(* Bounds *)

MaxRowGroups == 3

MaxColumns == 2

(* Stand-in for usize::MAX, the value `0usize - 1` wraps to in a release   *)
(* build; the checker's integers are 32 bits wide.                         *)
UsizeMax == 2147483647

----------------------------------------------------------------------------
(* Inputs *)

NoEvent == [tag |-> "None", kind |-> "-", code |-> "-"]

KeyCodes == {"q", "Q", "Down", "Up", "Tab", "Other"}

KeyKinds == {"Press", "Release", "Repeat"}

KeyEvents == [tag : {"Key"}, kind : KeyKinds, code : KeyCodes]

OtherEvents == [tag : {"Timeout", "PollErr", "ReadErr", "NonKey"}, kind : {"-"}, code : {"-"}]

Events == KeyEvents \cup OtherEvents

(* Files the metadata reader accepts: any number of row groups, zero included. *)
LoadableMetadata == UNION {[1..n -> 1..MaxColumns] : n \in 0..MaxRowGroups}

LoadOutcomes == {"DrawErr", "NoFileName", "OpenErr", "Malformed", "Loaded"}

DrawOutcomes == {"DrawOk", "DrawErr"}

----------------------------------------------------------------------------
(* src/lib.rs *)

DetailModes == {"RowGroup", "ColumnChunk"}

DetailModeDefault == "RowGroup"

(* variant: a toggle that never leaves ColumnChunk *)
toggle_stuck(mode) == "ColumnChunk"

toggle(mode) ==
    IF mode = "RowGroup" THEN "ColumnChunk" ELSE "RowGroup"

(* usize subtraction a - b as a release build computes it *)
wrapping_sub(a, b) ==
    IF a >= b THEN a - b ELSE UsizeMax - (b - a) + 1

(* a debug build panics on `a - b` when b > a *)
sub_overflows(a, b) == a < b

(* variant: Down wraps to 0 past the last row group *)
key_down_wrapping(sel, len) ==
    IF sel < wrapping_sub(len, 1) THEN sel + 1 ELSE 0

(* variant: Down compares with <= and can step past the last row group *)
key_down_off_by_one(sel, len) ==
    IF sel <= wrapping_sub(len, 1) THEN sel + 1 ELSE sel

(* KeyCode::Down arm: if *selected < meta.row_groups.len() - 1 { *selected += 1 } *)
key_down(sel, len) ==
    IF sel < wrapping_sub(len, 1) THEN sel + 1 ELSE sel

(* variant: Up compares with > 1 and cannot reach row group 0 *)
key_up_off_by_one(sel) ==
    IF sel > 1 THEN sel - 1 ELSE sel

(* KeyCode::Up arm: if *selected > 0 { *selected -= 1 } *)
key_up(sel) ==
    IF sel > 0 THEN sel - 1 ELSE sel

is_quit(code) == code = "q" \/ code = "Q"

AppState == [view_state |-> view_state, detail_mode |-> detail_mode,
             selected |-> selected, exiting |-> exiting]

(* variant: Up and Down act only while the detail mode is RowGroup *)
handle_key_gated(st, code, len, bld) ==
    LET displaying == st.view_state = "Displaying"
        moving == displaying /\ st.detail_mode = "RowGroup"
        s1 == IF is_quit(code) THEN [st EXCEPT !.exiting = TRUE] ELSE st
        panics == /\ code = "Down"
                  /\ moving
                  /\ sub_overflows(len, 1)
                  /\ bld = "debug"
        s2 == IF code = "Down" /\ moving
              THEN [s1 EXCEPT !.selected = key_down(@, len)] ELSE s1
        s3 == IF code = "Up" /\ moving
              THEN [s2 EXCEPT !.selected = key_up(@)] ELSE s2
        s4 == IF code = "Tab" /\ displaying
              THEN [s3 EXCEPT !.detail_mode = toggle(@)] ELSE s3
    IN  IF panics THEN [st |-> s1, ret |-> "Panic"] ELSE [st |-> s4, ret |-> "Ok"]

(* The `Event::Key(key_event) if key_event.kind == KeyEventKind::Press` arm  *)
(* of App::handle_events: the state it leaves and how it returns.          *)
handle_key(st, code, len, bld) ==
    LET displaying == st.view_state = "Displaying"
        s1 == IF is_quit(code) THEN [st EXCEPT !.exiting = TRUE] ELSE st
        panics == /\ code = "Down"
                  /\ displaying
                  /\ sub_overflows(len, 1)
                  /\ bld = "debug"
        s2 == IF code = "Down" /\ displaying
              THEN [s1 EXCEPT !.selected = key_down(@, len)] ELSE s1
        s3 == IF code = "Up" /\ displaying
              THEN [s2 EXCEPT !.selected = key_up(@)] ELSE s2
        s4 == IF code = "Tab" /\ displaying
              THEN [s3 EXCEPT !.detail_mode = toggle(@)] ELSE s3
    IN  IF panics THEN [st |-> s1, ret |-> "Panic"] ELSE [st |-> s4, ret |-> "Ok"]

(* variant: the KeyEventKind::Press guard is missing *)
handle_events_any_kind(st, ev, len, bld) ==
    IF ev.tag = "PollErr" \/ ev.tag = "ReadErr" THEN [st |-> st, ret |-> "Err"]
    ELSE IF ev.tag = "Timeout" THEN [st |-> st, ret |-> "Ok"]
    ELSE IF ev.tag = "Key" THEN handle_key(st, ev.code, len, bld)
    ELSE [st |-> st, ret |-> "Ok"]

(* App::handle_events on state st with input ev *)
handle_events(st, ev, len, bld) ==
    IF ev.tag = "PollErr" \/ ev.tag = "ReadErr" THEN [st |-> st, ret |-> "Err"]
    ELSE IF ev.tag = "Timeout" THEN [st |-> st, ret |-> "Ok"]
    ELSE IF ev.tag = "Key" /\ ev.kind = "Press" THEN handle_key(st, ev.code, len, bld)
    ELSE [st |-> st, ret |-> "Ok"]

(* App::render, Displaying arm: file_metadata.row_groups[*selected_row_group] *)
render_index_ok(sel, len) == sel < len

----------------------------------------------------------------------------
(* src/tui.rs and src/main.rs *)

CookedTerm == [alt |-> FALSE, raw |-> FALSE]

(* how far tui::init got: each `?` can return early *)
InitOutcomes == {"EnterAltErr", "RawModeErr", "TerminalErr", "InitOk"}

(* tui::init: EnterAlternateScreen, enable_raw_mode, Terminal::new, clear *)
tui_init(t, out) ==
    IF out = "EnterAltErr" THEN t
    ELSE IF out = "RawModeErr" THEN [t EXCEPT !.alt = TRUE]
    ELSE [alt |-> TRUE, raw |-> TRUE]

(* tui::restore: LeaveAlternateScreen, disable_raw_mode (both succeeding) *)
restore(t) == [alt |-> FALSE, raw |-> FALSE]

(* variant: no eyre hook, an error report leaves the terminal as it is *)
on_report_no_hook(t, installed) == t

(* the eyre hook of tui::install_hooks, run when wrap_err builds the report *)
on_report(t, installed) == IF installed THEN restore(t) ELSE t

(* the panic hook of tui::install_hooks *)
on_panic(t, installed) == IF installed THEN restore(t) ELSE t

(* exit status of main: Ok(()) is 0, a returned error 1, a panic 101 *)
exit_status(res) ==
    IF res = "Ok" THEN 0 ELSE IF res = "Err" THEN 1 ELSE 101

(* values of the column variables outside ColumnSpec and SampleSpec *)
NoChunk == [physical_type |-> "-", statistics |-> [tag |-> "-"]]

NotComputed == [tag |-> "-",
                stats |-> [min |-> <<>>, max |-> <<>>, null_count |-> <<>>,
                           distinct_values |-> <<>>]]

NoSnapshot == [stats |-> NotComputed, view |-> NotComputed]

NoSampleInput == [tag |-> "-"]

NoSampleOutput == [tag |-> "-", text |-> ""]

ColumnIdle ==
    /\ chunk = NoChunk
    /\ snapshot = NoSnapshot
    /\ sample_in = NoSampleInput
    /\ sample_out = NoSampleOutput

MainStart ==
    /\ proc = "install_hooks"
    /\ hooks = FALSE
    /\ term = CookedTerm
    /\ exit_code = -1

Init ==
    /\ pc = "loop"
    /\ result = "running"
    /\ build \in {"debug", "release"}
    /\ view_state = "Loading"
    /\ metadata = <<>>
    /\ detail_mode = DetailModeDefault
    /\ selected = 0
    /\ exiting = FALSE
    /\ drawn = "none"
    /\ event = NoEvent
    /\ prev = [view_state |-> "Loading", detail_mode |-> DetailModeDefault,
               selected |-> 0, exiting |-> FALSE]
    /\ nav = [active_pane |-> "RowGroupBrowser", row_group_index |-> 0, column_index |-> 0]
    /\ nav_prev = nav
    /\ nav_op = "none"
    /\ load = "none"
    /\ MainStart
    /\ ColumnIdle

(* variant: the loop never tests the exiting flag *)
RunLoop_unconditional ==
    /\ proc = "run"
    /\ pc = "loop"
    /\ pc' = "render"
    /\ result' = result
    /\ UNCHANGED <<load, build, view_state, metadata, detail_mode, selected, exiting,
                   drawn, event, prev>>
    /\ UNCHANGED <<navVars, mainVars, columnVars>>

(* App::run: while !self.state.exiting { ... } Ok(()) *)
RunLoop ==
    /\ proc = "run"
    /\ pc = "loop"
    /\ IF exiting
       THEN pc' = "done" /\ result' = "Ok"
       ELSE pc' = "render" /\ result' = result
    /\ UNCHANGED <<load, build, view_state, metadata, detail_mode, selected, exiting,
                   drawn, event, prev>>
    /\ UNCHANGED <<navVars, mainVars, columnVars>>

(* App::render, Loading arm *)
RenderLoading ==
    /\ proc = "run"
    /\ pc = "render"
    /\ view_state = "Loading"
    /\ \E out \in LoadOutcomes, md \in LoadableMetadata :
        /\ drawn' = IF out = "DrawErr" THEN drawn ELSE "loading"
        /\ load' = out
        /\ IF out = "Loaded"
           THEN /\ view_state' = "Displaying"
                /\ metadata' = md
                /\ detail_mode' = DetailModeDefault
                /\ selected' = 0
                /\ pc' = "events"
                /\ result' = result
           ELSE /\ pc' = "done"
                /\ result' = IF out \in {"DrawErr", "OpenErr"} THEN "Err" ELSE "Panic"
                /\ UNCHANGED <<view_state, metadata, detail_mode, selected>>
    /\ UNCHANGED <<build, exiting, event, prev>>
    /\ UNCHANGED <<navVars, mainVars, columnVars>>

(* App::render, Displaying arm *)
RenderDisplaying ==
    /\ proc = "run"
    /\ pc = "render"
    /\ view_state = "Displaying"
    /\ \E out \in DrawOutcomes :
        IF ~render_index_ok(selected, Len(metadata))
        THEN pc' = "done" /\ result' = "Panic" /\ drawn' = drawn
        ELSE IF out = "DrawErr"
        THEN pc' = "done" /\ result' = "Err" /\ drawn' = drawn
        ELSE pc' = "events" /\ result' = result /\ drawn' = "display"
    /\ UNCHANGED <<load, build, view_state, metadata, detail_mode, selected, exiting,
                   event, prev>>
    /\ UNCHANGED <<navVars, mainVars, columnVars>>

(* one call of App::handle_events from App::run *)
HandleEvents ==
    /\ proc = "run"
    /\ pc = "events"
    /\ \E ev \in Events :
        LET r == handle_events(AppState, ev, Len(metadata), build) IN
        /\ event' = ev
        /\ prev' = AppState
        /\ view_state' = r.st.view_state
        /\ detail_mode' = r.st.detail_mode
        /\ selected' = r.st.selected
        /\ exiting' = r.st.exiting
        /\ IF r.ret = "Ok"
           THEN pc' = "loop" /\ result' = result
           ELSE pc' = "done" /\ result' = r.ret
    /\ UNCHANGED <<load, build, metadata, drawn>>
    /\ UNCHANGED <<navVars, mainVars, columnVars>>

(* run_tui: tui::install_hooks()? *)
InstallHooks ==
    /\ proc = "install_hooks"
    /\ hooks' = TRUE
    /\ proc' = "init"
    /\ UNCHANGED <<term, exit_code>>
    /\ UNCHANGED <<appVars, metadata, navVars, columnVars>>

(* run_tui: tui::init().wrap_err("tui::init failed")? *)
TuiInit ==
    /\ proc = "init"
    /\ \E out \in InitOutcomes :
        IF out = "InitOk"
        THEN /\ term' = tui_init(term, out)
             /\ proc' = "run"
             /\ exit_code' = exit_code
        ELSE /\ term' = on_report(tui_init(term, out), hooks)
             /\ proc' = "exited"
             /\ exit_code' = exit_status("Err")
    /\ UNCHANGED hooks
    /\ UNCHANGED <<appVars, metadata, navVars, columnVars>>

(* run_tui after app.run returned or unwound:                              *)
(*   Ok    -> tui::restore()?; Ok(())                                      *)
(*   Err   -> wrap_err("app run failed")? builds the report                *)
(*   Panic -> the panic hook ran while unwinding                           *)
Finish ==
    /\ proc = "run"
    /\ pc = "done"
    /\ term' = IF result = "Ok" THEN restore(term)
               ELSE IF result = "Err" THEN on_report(term, hooks)
               ELSE on_panic(term, hooks)
    /\ exit_code' = exit_status(result)
    /\ proc' = "exited"
    /\ UNCHANGED hooks
    /\ UNCHANGED <<appVars, metadata, navVars, columnVars>>

Next ==
    \/ InstallHooks
    \/ TuiInit
    \/ Finish
    \/ RunLoop
    \/ RenderLoading
    \/ RenderDisplaying
    \/ HandleEvents

Spec == Init /\ [][Next]_vars

(* The loop is single-threaded and every step returns: the poll has a      *)
(* 16 ms timeout and rendering touches only resident metadata.             *)
FairSpec == Spec /\ WF_vars(Next)

----------------------------------------------------------------------------
(* The three-pane selection state read by src/views/*.rs.                  *)
(* Its owner, the App with active_pane / row_group_view_state /            *)
(* column_chunk_view_state, is not among the source files; the transitions *)
(* below follow spec.md sections 3 and 4.1.                                *)

ActivePanes == {"RowGroupBrowser", "ColumnBrowser", "ColumnChunkDetail"}

(* Files the loader of spec.md section 3 accepts: row_groups non-empty,    *)
(* every RowGroup.columns non-empty.                                       *)
AcceptedMetadata == UNION {[1..n -> 1..MaxColumns] : n \in 1..MaxRowGroups}

num_columns(md, rg) == md[rg + 1]

nav_toggle_pane(s) ==
    [s EXCEPT !.active_pane =
        IF @ = "RowGroupBrowser" THEN "ColumnBrowser"
        ELSE IF @ = "ColumnBrowser" THEN "ColumnChunkDetail"
        ELSE "RowGroupBrowser"]

(* variant: moving to another row group keeps the column index *)
nav_move_next_keep_column(s, md) ==
    IF s.active_pane = "RowGroupBrowser" THEN
        [s EXCEPT !.row_group_index = (@ + 1) % Len(md)]
    ELSE IF s.active_pane = "ColumnBrowser" THEN
        [s EXCEPT !.column_index = (@ + 1) % num_columns(md, s.row_group_index)]
    ELSE s

nav_move_next(s, md) ==
    IF s.active_pane = "RowGroupBrowser" THEN
        LET rg == (s.row_group_index + 1) % Len(md) IN
        [s EXCEPT !.row_group_index = rg,
                  !.column_index = IF rg # s.row_group_index THEN 0 ELSE @]
    ELSE IF s.active_pane = "ColumnBrowser" THEN
        [s EXCEPT !.column_index = (@ + 1) % num_columns(md, s.row_group_index)]
    ELSE s

(* variant: moving to another row group keeps the column index *)
nav_move_prev_keep_column(s, md) ==
    IF s.active_pane = "RowGroupBrowser" THEN
        [s EXCEPT !.row_group_index = (@ + Len(md) - 1) % Len(md)]
    ELSE IF s.active_pane = "ColumnBrowser" THEN
        LET n == num_columns(md, s.row_group_index) IN
        [s EXCEPT !.column_index = (@ + n - 1) % n]
    ELSE s

nav_move_prev(s, md) ==
    IF s.active_pane = "RowGroupBrowser" THEN
        LET rg == (s.row_group_index + Len(md) - 1) % Len(md) IN
        [s EXCEPT !.row_group_index = rg,
                  !.column_index = IF rg # s.row_group_index THEN 0 ELSE @]
    ELSE IF s.active_pane = "ColumnBrowser" THEN
        LET n == num_columns(md, s.row_group_index) IN
        [s EXCEPT !.column_index = (@ + n - 1) % n]
    ELSE s

(* views/column_detail.rs render:                                          *)
(*   app.parquet_metadata.row_groups[row_group].columns()[column]          *)
column_detail_index_ok(s, md) ==
    /\ s.row_group_index < Len(md)
    /\ s.column_index < num_columns(md, s.row_group_index)

(* views/column_chunk_browser.rs render:                                   *)
(*   app.parquet_metadata.row_groups[selected].columns()                   *)
column_chunk_browser_index_ok(s, md) == s.row_group_index < Len(md)

NavInit ==
    /\ pc = "loop"
    /\ result = "running"
    /\ build \in {"debug", "release"}
    /\ view_state = "Loading"
    /\ metadata \in AcceptedMetadata
    /\ detail_mode = DetailModeDefault
    /\ selected = 0
    /\ exiting = FALSE
    /\ drawn = "none"
    /\ event = NoEvent
    /\ prev = [view_state |-> "Loading", detail_mode |-> DetailModeDefault,
               selected |-> 0, exiting |-> FALSE]
    /\ nav = [active_pane |-> "RowGroupBrowser", row_group_index |-> 0, column_index |-> 0]
    /\ nav_prev = nav
    /\ nav_op = "none"
    /\ load = "none"
    /\ MainStart
    /\ ColumnIdle

NavMoveNext ==
    /\ nav_prev' = nav
    /\ nav_op' = "move_next"
    /\ nav' = nav_move_next(nav, metadata)
    /\ UNCHANGED appVars
    /\ UNCHANGED metadata
    /\ UNCHANGED <<mainVars, columnVars>>

NavMovePrev ==
    /\ nav_prev' = nav
    /\ nav_op' = "move_prev"
    /\ nav' = nav_move_prev(nav, metadata)
    /\ UNCHANGED appVars
    /\ UNCHANGED metadata
    /\ UNCHANGED <<mainVars, columnVars>>

NavTogglePane ==
    /\ nav_prev' = nav
    /\ nav_op' = "toggle_pane"
    /\ nav' = nav_toggle_pane(nav)
    /\ UNCHANGED appVars
    /\ UNCHANGED metadata
    /\ UNCHANGED <<mainVars, columnVars>>

NavNext ==
    \/ NavMoveNext
    \/ NavMovePrev
    \/ NavTogglePane

NavSpec == NavInit /\ [][NavNext]_vars

----------------------------------------------------------------------------
(* Properties of the event loop (Spec) *)

IsPress(ev, code) == ev.tag = "Key" /\ ev.kind = "Press" /\ ev.code = code

(* handle_events has just returned Ok to App::run *)
Returned == pc = "loop" /\ event # NoEvent

NumRowGroups == Len(metadata)

RECURSIVE IterDown(_, _, _)
IterDown(k, i, len) == IF k = 0 THEN i ELSE IterDown(k - 1, key_down(i, len), len)

(* C1 as stated: a Down press with the last row group selected moves the   *)
(* selection to index 0.                                                   *)
C1_DownWrapsToZero ==
    (Returned /\ IsPress(event, "Down") /\ NumRowGroups >= 1
        /\ prev.selected = NumRowGroups - 1)
    => selected = 0

(* C1 amended: a Down press advances the selection by one and saturates at *)
(* the last row group: from len-1 it stays at len-1 and never goes to 0    *)
(* (unless len = 1); with 3 row groups, three Down presses from 0 give     *)
(* 1, 2, 2.                                                                *)
C1_DownSaturates ==
    /\ (Returned /\ IsPress(event, "Down") /\ NumRowGroups >= 1)
        => /\ prev.selected < NumRowGroups - 1 => selected = prev.selected + 1
           /\ prev.selected = NumRowGroups - 1 => selected = NumRowGroups - 1
    /\ (view_state = "Displaying" /\ NumRowGroups = 3)
        => <<IterDown(1, 0, NumRowGroups), IterDown(2, 0, NumRowGroups),
             IterDown(3, 0, NumRowGroups)>> = <<1, 2, 2>>

C1_Witness ==
    /\ Returned /\ IsPress(event, "Down")
    /\ NumRowGroups = 3
    /\ prev.selected = 2
    /\ selected = 2

(* C2 as stated: an Up press with row group 0 selected moves the selection *)
(* to the last index.                                                      *)
C2_UpWrapsToLast ==
    (Returned /\ IsPress(event, "Up") /\ NumRowGroups >= 1 /\ prev.selected = 0)
    => selected = NumRowGroups - 1

(* C2 amended: an Up press moves the selection back by one and saturates   *)
(* at 0: from index 0 it stays at 0, for every list length.                *)
C2_UpSaturates ==
    (Returned /\ IsPress(event, "Up") /\ view_state = "Displaying")
    => /\ prev.selected > 0 => selected = prev.selected - 1
       /\ prev.selected = 0 => selected = 0

C2_Witness ==
    /\ Returned /\ IsPress(event, "Up")
    /\ NumRowGroups = 3
    /\ prev.selected = 0
    /\ selected = 0

(* C3 as stated: from every valid index i of a list of length n >= 1, n    *)
(* Down steps return to i, and Up and Down undo each other.                *)
C3_RoundTrip ==
    (view_state = "Displaying" /\ NumRowGroups >= 1 /\ selected < NumRowGroups)
    => /\ IterDown(NumRowGroups, selected, NumRowGroups) = selected
       /\ key_up(key_down(selected, NumRowGroups)) = selected
       /\ key_down(key_up(selected), NumRowGroups) = selected

(* C3 amended: from every valid index i of a list of length n >= 1, n Down *)
(* steps end at n-1 (so they return to i only for i = n-1); Up after Down  *)
(* returns to i except at i = n-1 with n >= 2, where it gives n-2; Down    *)
(* after Up returns to i except at i = 0 with n >= 2, where it gives 1;    *)
(* for n = 1 both are no-ops.                                              *)
C3_SaturatingRoundTrip ==
    (view_state = "Displaying" /\ NumRowGroups >= 1 /\ selected < NumRowGroups)
    => LET n == NumRowGroups
           i == selected
       IN  /\ IterDown(n, i, n) = n - 1
           /\ key_up(key_down(i, n)) = (IF i = n - 1 /\ n >= 2 THEN n - 2 ELSE i)
           /\ key_down(key_up(i), n) = (IF i = 0 /\ n >= 2 THEN 1 ELSE i)
           /\ n = 1 => (key_down(i, n) = i /\ key_up(i) = i)

C3_Witness ==
    /\ Returned /\ IsPress(event, "Up")
    /\ NumRowGroups = 3
    /\ prev.selected = 2
    /\ selected = 1
    /\ IterDown(NumRowGroups, selected, NumRowGroups) = 2

(* C5 as stated: once the file is loaded the selected row group is a valid *)
(* index into row_groups and no step panics.                               *)
C5_RowGroupIndexInBounds ==
    view_state = "Displaying"
    => /\ 0 <= selected
       /\ selected < NumRowGroups
       /\ result # "Panic"

(* C7 as stated: three Tab presses bring the active pane back to where it *)
(* started, so three applications of toggle are the identity.              *)
C7_ThreeTogglesReturn ==
    (Returned /\ IsPress(event, "Tab"))
    => /\ detail_mode = toggle(prev.detail_mode)
       /\ toggle(toggle(toggle(prev.detail_mode))) = prev.detail_mode

(* C7 amended: a Tab press switches between the two detail modes RowGroup  *)
(* and ColumnChunk; toggle applied 2 times returns to the starting mode,   *)
(* for every starting mode, and applied 3 times it gives the other mode.   *)
C7_TwoTogglesReturn ==
    (Returned /\ IsPress(event, "Tab"))
    => LET m == prev.detail_mode
           other == CHOOSE x \in DetailModes : x # m
       IN  /\ detail_mode = other
           /\ toggle(toggle(m)) = m
           /\ toggle(toggle(toggle(m))) = other

C7_Witness ==
    /\ Returned /\ IsPress(event, "Tab")
    /\ prev.detail_mode = "ColumnChunk"
    /\ detail_mode = "RowGroup"

(* C8 as stated: an Up or Down press changes the selected row group only   *)
(* while the row-group pane is the active one.                             *)
C8_MoveOnlyInRowGroupPane ==
    (Returned /\ (IsPress(event, "Up") \/ IsPress(event, "Down"))
        /\ prev.detail_mode # "RowGroup")
    => selected = prev.selected

(* C8 amended: an Up or Down press moves the selected row group in the     *)
(* same way whichever detail mode is active (Down: +1 below the last       *)
(* index, Up: -1 above 0), and leaves the detail mode and the exiting flag *)
(* unchanged.                                                              *)
C8_MoveInEveryMode ==
    (Returned /\ (IsPress(event, "Up") \/ IsPress(event, "Down"))
        /\ NumRowGroups >= 1)
    => /\ detail_mode = prev.detail_mode
       /\ exiting = prev.exiting
       /\ IsPress(event, "Down") =>
            selected = (IF prev.selected < NumRowGroups - 1
                        THEN prev.selected + 1 ELSE prev.selected)
       /\ IsPress(event, "Up") =>
            selected = (IF prev.selected > 0 THEN prev.selected - 1 ELSE prev.selected)

C8_Witness ==
    /\ Returned /\ IsPress(event, "Down")
    /\ prev.detail_mode = "ColumnChunk"
    /\ detail_mode = "ColumnChunk"
    /\ prev.selected = 0
    /\ selected = 1

(* C9: once a quit key has been processed the exiting flag stays set, the  *)
(* loop is at its top or finished (never rendering or polling again), no   *)
(* further frame is drawn, and run ends with Ok.                           *)
C9_ExitIsFinal ==
    /\ [](exiting => pc \in {"loop", "done"})
    /\ [](exiting /\ pc = "done" => result = "Ok")
    /\ [][exiting => (exiting' /\ drawn' = drawn)]_vars
    /\ [][(pc = "events" /\ IsPress(event', "q")) => exiting']_vars
    /\ [][(pc = "events" /\ IsPress(event', "Q")) => exiting']_vars
    /\ (exiting ~> (pc = "done" /\ result = "Ok"))

C9_Witness ==
    /\ exiting
    /\ IsPress(event, "Q")
    /\ ~prev.exiting
    /\ pc = "done"
    /\ result = "Ok"
    /\ drawn = "display"

Unrecognized(ev) ==
    \/ ev.tag \in {"Timeout", "NonKey"}
    \/ ev.tag = "Key" /\ ev.kind # "Press"
    \/ IsPress(ev, "Other")

(* C10: an input that is not a recognized command (another key, a key      *)
(* event that is not a press, a non-key event, a poll timeout) leaves the  *)
(* mode, the selection, the exiting flag and the metadata unchanged and    *)
(* handle_events returns Ok.                                               *)
C10_UnrecognizedIgnored ==
    [][(pc = "events" /\ Unrecognized(event'))
        => /\ AppState' = AppState
           /\ metadata' = metadata
           /\ pc' = "loop"
           /\ result' = "running"]_vars

C10_Witness ==
    /\ Returned
    /\ event.tag = "Key" /\ event.kind = "Release" /\ event.code = "Down"
    /\ NumRowGroups = 3
    /\ prev.selected = 1
    /\ AppState = prev
    /\ result = "running"

----------------------------------------------------------------------------
(* Properties of the three-pane selection state (NavSpec) *)

----------------------------------------------------------------------------
(* Properties of loading and of the session's exit paths (Spec) *)

LoadFailed == load \in {"OpenErr", "Malformed"}

(* C17 as stated: a file that cannot be opened and a file with malformed   *)
(* metadata end the session the same way: run returns an error, the exit   *)
(* status is non-zero, and no frame was drawn before.                      *)
C17_LoadFailureUniform ==
    /\ (pc = "done" /\ LoadFailed) => (result = "Err" /\ drawn = "none")
    /\ (proc = "exited" /\ LoadFailed) => exit_code # 0

C19_EmptyFileRejected ==
    /\ load = "Loaded" => Len(metadata) >= 1
    /\ view_state = "Displaying" => Len(metadata) >= 1

----------------------------------------------------------------------------
(* src/parquet.rs and src/views/column_chunk.rs: the statistics projections *)

MaxCount == 3

None == <<>>

Some(v) == <<v>>

Opt(S) == {None} \cup {Some(v) : v \in S}

PhysicalTypes == {"Boolean", "Int32", "Int64", "Int96", "Float", "Double",
                  "ByteArray", "FixedLenByteArray"}

(* the concrete types behind `dyn Statistics` *)
Shapes == {"BooleanStatistics", "PrimitiveStatistics<i32>", "PrimitiveStatistics<i64>",
           "PrimitiveStatistics<[u32; 3]>", "PrimitiveStatistics<f32>",
           "PrimitiveStatistics<f64>", "BinaryStatistics", "FixedLenStatistics"}

BoolValues == {FALSE, TRUE}

IntValues == {-5, 0, 42}

(* f32 / f64 values, in tenths *)
FloatValues == {-5, 15, 20}

Int96Values == {<<1, 0, 0>>}

(* stored byte strings: "A", U+00E9, a truncated 2-byte form, 0xFF, a lone  *)
(* continuation byte after "A", and the empty string                       *)
ByteStrings == {<<65>>, <<195, 169>>, <<195>>, <<255>>, <<65, 169>>, <<>>}

Counts == 0..MaxCount

ValuesOf(shape) ==
    IF shape = "BooleanStatistics" THEN BoolValues
    ELSE IF shape \in {"PrimitiveStatistics<i32>", "PrimitiveStatistics<i64>"} THEN IntValues
    ELSE IF shape \in {"PrimitiveStatistics<f32>", "PrimitiveStatistics<f64>"} THEN FloatValues
    ELSE IF shape = "PrimitiveStatistics<[u32; 3]>" THEN Int96Values
    ELSE ByteStrings

StatsOf(shape) ==
    [shape : {shape}, min_value : Opt(ValuesOf(shape)), max_value : Opt(ValuesOf(shape)),
     null_count : Opt(Counts), distinct_count : Opt(Counts)]

NoStats == [shape |-> "-", min_value |-> None, max_value |-> None,
            null_count |-> None, distinct_count |-> None]

(* ColumnChunkMetaData::statistics(): Option<Result<Arc<dyn Statistics>>> *)
StatisticsInputs ==
    [tag : {"None", "Err"}, stats : {NoStats}]
    \cup [tag : {"Ok"}, stats : UNION {StatsOf(sh) : sh \in Shapes}]

Chunks == [physical_type : PhysicalTypes, statistics : StatisticsInputs]

(* HumanFriendlyStats::default() *)
DefaultStats == [min |-> None, max |-> None, null_count |-> None, distinct_values |-> None]

Returns(hfs) == [tag |-> "Ok", stats |-> hfs]

Panics == [tag |-> "Panic", stats |-> DefaultStats]

Digit(d) == <<"0", "1", "2", "3", "4", "5", "6", "7", "8", "9">>[d + 1]

RECURSIVE fmt_nat(_)
fmt_nat(n) == IF n < 10 THEN Digit(n) ELSE fmt_nat(n \div 10) \o Digit(n % 10)

(* format!("{:?}", v) for i32 / i64 *)
fmt_int(n) == IF n < 0 THEN "-" \o fmt_nat(0 - n) ELSE fmt_nat(n)

(* format!("{:?}", v) for f32 / f64, v given in tenths *)
fmt_float(t) ==
    LET a == IF t < 0 THEN 0 - t ELSE t
    IN  (IF t < 0 THEN "-" ELSE "") \o fmt_nat(a \div 10) \o "." \o Digit(a % 10)

(* format!("{:?}", v) for bool *)
fmt_bool(b) == IF b THEN "true" ELSE "false"

(* format!("{:?}", v) for [u32; 3] *)
fmt_int96(v) == "[" \o fmt_nat(v[1]) \o ", " \o fmt_nat(v[2]) \o ", " \o fmt_nat(v[3]) \o "]"

fmt_native(shape, v) ==
    IF shape \in {"PrimitiveStatistics<i32>", "PrimitiveStatistics<i64>"} THEN fmt_int(v)
    ELSE IF shape \in {"PrimitiveStatistics<f32>", "PrimitiveStatistics<f64>"} THEN fmt_float(v)
    ELSE fmt_int96(v)

is_cont(b) == 128 <= b /\ b <= 191

(* number of bytes of the well-formed UTF-8 sequence bs starts with, 0 if none *)
utf8_char_len(bs) ==
    LET n == Len(bs)
        b1 == bs[1]
    IN  IF b1 <= 127 THEN 1
        ELSE IF 194 <= b1 /\ b1 <= 223
        THEN (IF n >= 2 /\ is_cont(bs[2]) THEN 2 ELSE 0)
        ELSE IF 224 <= b1 /\ b1 <= 239
        THEN (IF /\ n >= 3
                 /\ is_cont(bs[2]) /\ is_cont(bs[3])
                 /\ (b1 = 224 => bs[2] >= 160)
                 /\ (b1 = 237 => bs[2] <= 159)
              THEN 3 ELSE 0)
        ELSE IF 240 <= b1 /\ b1 <= 244
        THEN (IF /\ n >= 4
                 /\ is_cont(bs[2]) /\ is_cont(bs[3]) /\ is_cont(bs[4])
                 /\ (b1 = 240 => bs[2] >= 144)
                 /\ (b1 = 244 => bs[2] <= 143)
              THEN 4 ELSE 0)
        ELSE 0

(* the scalar value of the k-byte sequence bs starts with *)
utf8_scalar(bs, k) ==
    IF k = 1 THEN bs[1]
    ELSE IF k = 2 THEN (bs[1] - 192) * 64 + (bs[2] - 128)
    ELSE IF k = 3 THEN (bs[1] - 224) * 4096 + (bs[2] - 128) * 64 + (bs[3] - 128)
    ELSE (bs[1] - 240) * 262144 + (bs[2] - 128) * 4096 + (bs[3] - 128) * 64 + (bs[4] - 128)

(* one char of a String, written out *)
char_text(cp) ==
    IF cp = 65 THEN "A" ELSE "<U+" \o fmt_nat(cp) \o ">"

(* String::from_utf8(bytes): [ok, text] *)
RECURSIVE from_utf8(_)
from_utf8(bs) ==
    IF bs = <<>> THEN [ok |-> TRUE, text |-> ""]
    ELSE LET k == utf8_char_len(bs) IN
         IF k = 0 THEN [ok |-> FALSE, text |-> ""]
         ELSE LET rest == from_utf8(SubSeq(bs, k + 1, Len(bs))) IN
              IF rest.ok
              THEN [ok |-> TRUE, text |-> char_text(utf8_scalar(bs, k)) \o rest.text]
              ELSE [ok |-> FALSE, text |-> ""]

(* variant: the fallback is the empty string instead of "UNK" *)
utf8_or_empty(bs) ==
    LET r == from_utf8(bs) IN IF r.ok THEN r.text ELSE ""

(* String::from_utf8(v).unwrap_or("UNK".to_string()) *)
utf8_or_unk(bs) ==
    LET r == from_utf8(bs) IN IF r.ok THEN r.text ELSE "UNK"

(* variant: the primitive conversion copies distinct_count as the others do *)
from_primitive_with_distinct(s) ==
    [min |-> IF s.min_value = None THEN None ELSE Some(fmt_native(s.shape, s.min_value[1])),
     max |-> IF s.max_value = None THEN None ELSE Some(fmt_native(s.shape, s.max_value[1])),
     null_count |-> s.null_count,
     distinct_values |-> s.distinct_count]

(* impl From<&PrimitiveStatistics<T>> for HumanFriendlyStats *)
from_primitive(s) ==
    [min |-> IF s.min_value = None THEN None ELSE Some(fmt_native(s.shape, s.min_value[1])),
     max |-> IF s.max_value = None THEN None ELSE Some(fmt_native(s.shape, s.max_value[1])),
     null_count |-> s.null_count,
     distinct_values |-> None]

(* impl From<&BooleanStatistics> for HumanFriendlyStats *)
from_boolean(s) ==
    [min |-> IF s.min_value = None THEN None ELSE Some(fmt_bool(s.min_value[1])),
     max |-> IF s.max_value = None THEN None ELSE Some(fmt_bool(s.max_value[1])),
     null_count |-> s.null_count,
     distinct_values |-> s.distinct_count]

(* impl From<&BinaryStatistics> for HumanFriendlyStats *)
from_binary(s) ==
    [min |-> IF s.min_value = None THEN None ELSE Some(utf8_or_unk(s.min_value[1])),
     max |-> IF s.max_value = None THEN None ELSE Some(utf8_or_unk(s.max_value[1])),
     null_count |-> s.null_count,
     distinct_values |-> s.distinct_count]

(* impl From<&FixedLenStatistics> for HumanFriendlyStats *)
from_fixed_len(s) ==
    [min |-> IF s.min_value = None THEN None ELSE Some(utf8_or_unk(s.min_value[1])),
     max |-> IF s.max_value = None THEN None ELSE Some(utf8_or_unk(s.max_value[1])),
     null_count |-> s.null_count,
     distinct_values |-> s.distinct_count]

(* HumanFriendlyStats::from(&s), resolved by the static type of s *)
human_friendly_from(s) ==
    IF s.shape = "BooleanStatistics" THEN from_boolean(s)
    ELSE IF s.shape = "BinaryStatistics" THEN from_binary(s)
    ELSE IF s.shape = "FixedLenStatistics" THEN from_fixed_len(s)
    ELSE from_primitive(s)

(* the type the arm of a physical type downcasts to *)
downcast_target(pt) ==
    IF pt = "Boolean" THEN "BooleanStatistics"
    ELSE IF pt = "Int32" THEN "PrimitiveStatistics<i32>"
    ELSE IF pt = "Int64" THEN "PrimitiveStatistics<i64>"
    ELSE IF pt = "Int96" THEN "PrimitiveStatistics<[u32; 3]>"
    ELSE IF pt = "Float" THEN "PrimitiveStatistics<f32>"
    ELSE IF pt = "Double" THEN "PrimitiveStatistics<f64>"
    ELSE IF pt = "ByteArray" THEN "BinaryStatistics"
    ELSE "FixedLenStatistics"

(* variant: the downcast does not check the concrete type *)
downcast_unchecked(s, target) == Some(s)

(* stats.as_any().downcast_ref::<T>().cloned() *)
downcast_ref(s, target) == IF s.shape = target THEN Some(s) ELSE None

(* one arm of either projection:                                           *)
(*   statistics().map(|s| s.unwrap() ... downcast ...) ... or default      *)
project_arm(c, target) ==
    IF c.statistics.tag = "None" THEN Returns(DefaultStats)
    ELSE IF c.statistics.tag = "Err" THEN Panics
    ELSE LET d == downcast_ref(c.statistics.stats, target) IN
         IF d = None THEN Returns(DefaultStats)
         ELSE Returns(human_friendly_from(d[1]))

(* variant: the Int96 arm projects like the other primitive arms *)
stats_int96_projected(c) ==
    IF c.physical_type = "Boolean" THEN Returns(DefaultStats)
    ELSE project_arm(c, downcast_target(c.physical_type))

(* ColumnChunkMetaDataExt::stats *)
stats(c) ==
    IF c.physical_type = "Boolean" THEN Returns(DefaultStats)
    ELSE IF c.physical_type = "Int96" THEN Returns(DefaultStats)
    ELSE project_arm(c, downcast_target(c.physical_type))

(* ColumnChunkDetailView::from, its stats field *)
detail_view_from(c) ==
    IF c.physical_type = "Int96" THEN Returns(DefaultStats)
    ELSE project_arm(c, downcast_target(c.physical_type))

ColumnInit ==
    /\ pc = "loop"
    /\ result = "running"
    /\ build = "debug"
    /\ view_state = "Loading"
    /\ metadata = <<>>
    /\ detail_mode = DetailModeDefault
    /\ selected = 0
    /\ exiting = FALSE
    /\ drawn = "none"
    /\ event = NoEvent
    /\ prev = [view_state |-> "Loading", detail_mode |-> DetailModeDefault,
               selected |-> 0, exiting |-> FALSE]
    /\ nav = [active_pane |-> "RowGroupBrowser", row_group_index |-> 0, column_index |-> 0]
    /\ nav_prev = nav
    /\ nav_op = "none"
    /\ load = "none"
    /\ MainStart
    /\ chunk \in Chunks
    /\ snapshot = NoSnapshot
    /\ sample_in = NoSampleInput
    /\ sample_out = NoSampleOutput

(* views/column_detail.rs render: chunk.stats() *)
ProjectStats ==
    /\ snapshot.stats.tag = "-"
    /\ snapshot' = [snapshot EXCEPT !.stats = stats(chunk)]
    /\ UNCHANGED <<chunk, sample_in, sample_out>>
    /\ UNCHANGED <<appVars, metadata, navVars, mainVars>>

(* ColumnChunkDetailView::from(&chunk) *)
ProjectDetailView ==
    /\ snapshot.view.tag = "-"
    /\ snapshot' = [snapshot EXCEPT !.view = detail_view_from(chunk)]
    /\ UNCHANGED <<chunk, sample_in, sample_out>>
    /\ UNCHANGED <<appVars, metadata, navVars, mainVars>>

ColumnNext ==
    \/ ProjectStats
    \/ ProjectDetailView

ColumnSpec == ColumnInit /\ [][ColumnNext]_vars

----------------------------------------------------------------------------
(* src/parquet.rs: sample_column *)

MaxRecords == 11

(* read_records(10, ..) and .take(10) *)
SampleLimit == 10

(* the first call that fails, if any: SerializedFileReader::new,            *)
(* get_row_group, get_column_reader, read_records                          *)
SampleFailures == {"None", "Reader", "RowGroup", "ColumnReader", "ReadRecords"}

(* a column of `records` flat records, the first `nulls` of them null *)
SampleInputs ==
    {[tag |-> "Call", fail |-> f, physical_type |-> pt, records |-> n, nulls |-> k] :
        f \in SampleFailures, pt \in PhysicalTypes, n \in 0..MaxRecords, k \in 0..MaxRecords}
    \ {x \in [tag : {"Call"}, fail : SampleFailures, physical_type : PhysicalTypes,
              records : 0..MaxRecords, nulls : 0..MaxRecords] : x.nulls > x.records}

Min(a, b) == IF a < b THEN a ELSE b

(* the text of the j-th non-null value of the column, by value type *)
value_to_string(pt, j) ==
    IF pt = "Boolean" THEN (IF j % 2 = 1 THEN "true" ELSE "false")
    ELSE IF pt \in {"Int32", "Int64"} THEN fmt_int(j)
    ELSE IF pt \in {"Float", "Double"} THEN fmt_nat(j) \o ".5"
    ELSE "[" \o fmt_nat(j) \o "]"

(* format!("{:?}", &sample) for the Vec<String> of values from..to *)
RECURSIVE debug_strings(_, _, _)
debug_strings(pt, from, to) ==
    IF from > to THEN ""
    ELSE "\"" \o value_to_string(pt, from) \o "\""
         \o (IF from < to THEN ", " ELSE "") \o debug_strings(pt, from + 1, to)

(* sample_column(chunk_reader, row_group, column_chunk) *)
sample_column(in) ==
    IF in.fail \in {"Reader", "RowGroup", "ColumnReader"} THEN [tag |-> "Panic", text |-> ""]
    ELSE IF in.physical_type = "Int96"
    THEN [tag |-> "Text", text |-> "INT96 sampling not supported"]
    ELSE IF in.fail = "ReadRecords" THEN [tag |-> "Panic", text |-> ""]
    ELSE LET complete == Min(in.records, SampleLimit)
             non_null == complete - Min(in.nulls, complete)
             shown == Min(non_null, SampleLimit)
         IN  [tag |-> "Text",
              text |-> "count: " \o fmt_nat(complete) \o ", non-null: " \o fmt_nat(non_null)
                       \o " sample: [" \o debug_strings(in.physical_type, 1, shown) \o "]"]

SampleInit ==
    /\ pc = "loop"
    /\ result = "running"
    /\ build = "debug"
    /\ view_state = "Loading"
    /\ metadata = <<>>
    /\ detail_mode = DetailModeDefault
    /\ selected = 0
    /\ exiting = FALSE
    /\ drawn = "none"
    /\ event = NoEvent
    /\ prev = [view_state |-> "Loading", detail_mode |-> DetailModeDefault,
               selected |-> 0, exiting |-> FALSE]
    /\ nav = [active_pane |-> "RowGroupBrowser", row_group_index |-> 0, column_index |-> 0]
    /\ nav_prev = nav
    /\ nav_op = "none"
    /\ load = "none"
    /\ MainStart
    /\ chunk = NoChunk
    /\ snapshot = NoSnapshot
    /\ sample_in \in SampleInputs
    /\ sample_out = NoSampleOutput

SampleColumn ==
    /\ sample_out.tag = "-"
    /\ sample_out' = sample_column(sample_in)
    /\ UNCHANGED <<chunk, snapshot, sample_in>>
    /\ UNCHANGED <<appVars, metadata, navVars, mainVars>>

SampleNext == SampleColumn

SampleSpec == SampleInit /\ [][SampleNext]_vars

----------------------------------------------------------------------------
(* Properties of the statistics projections (ColumnSpec) *)

StatsDone == snapshot.stats.tag # "-"

ViewDone == snapshot.view.tag # "-"

AllAbsent == [tag |-> "Ok",
              stats |-> [min |-> <<>>, max |-> <<>>, null_count |-> <<>>,
                         distinct_values |-> <<>>]]

Stored == chunk.statistics.stats

(* the stored statistics decoded and have the type the arm downcasts to *)
Matching ==
    /\ chunk.statistics.tag = "Ok"
    /\ Stored.shape = downcast_target(chunk.physical_type)

Mismatching ==
    /\ chunk.statistics.tag = "Ok"
    /\ Stored.shape # downcast_target(chunk.physical_type)

(* C11 as stated: both projections return a snapshot for every physical    *)
(* type and every statistics input, absent, well-formed or undecodable,    *)
(* and absent statistics give the all-absent snapshot.                     *)
C11_ProjectionTotal ==
    /\ StatsDone => snapshot.stats.tag = "Ok"
    /\ ViewDone => snapshot.view.tag = "Ok"
    /\ (StatsDone /\ chunk.statistics.tag = "None") => snapshot.stats = AllAbsent
    /\ (ViewDone /\ chunk.statistics.tag = "None") => snapshot.view = AllAbsent

(* C12: when the decoded statistics are of another type than the one the  *)
(* column's physical type calls for, both projections return the           *)
(* all-absent snapshot and neither panics.                                 *)
C12_MismatchGivesAllAbsent ==
    /\ (StatsDone /\ Mismatching) => snapshot.stats = AllAbsent
    /\ (ViewDone /\ Mismatching) => snapshot.view = AllAbsent

C12_Witness ==
    /\ chunk.physical_type = "Int32"
    /\ chunk.statistics.tag = "Ok"
    /\ Stored.shape = "BinaryStatistics"
    /\ Stored.min_value = <<(<<65>>)>>
    /\ Stored.null_count = <<3>>
    /\ snapshot.stats = AllAbsent
    /\ snapshot.view = AllAbsent

(* C13: for an Int96 column both projections return the all-absent         *)
(* snapshot whatever statistics are stored, undecodable ones included.     *)
C13_Int96AllAbsent ==
    /\ (StatsDone /\ chunk.physical_type = "Int96") => snapshot.stats = AllAbsent
    /\ (ViewDone /\ chunk.physical_type = "Int96") => snapshot.view = AllAbsent

C13_Witness ==
    /\ chunk.physical_type = "Int96"
    /\ Matching
    /\ Stored.min_value = <<(<<1, 0, 0>>)>>
    /\ Stored.null_count = <<3>>
    /\ Stored.distinct_count = <<2>>
    /\ snapshot.stats = AllAbsent
    /\ snapshot.view = AllAbsent

DecimalText(v) ==
    IF v = 0 - 5 THEN "-5" ELSE IF v = 0 THEN "0" ELSE IF v = 42 THEN "42" ELSE "?"

IntSnapshot(st) ==
    [tag |-> "Ok",
     stats |-> [min |-> IF st.min_value = <<>> THEN <<>> ELSE <<DecimalText(st.min_value[1])>>,
                max |-> IF st.max_value = <<>> THEN <<>> ELSE <<DecimalText(st.max_value[1])>>,
                null_count |-> st.null_count,
                distinct_values |-> <<>>]]

(* C14: for an Int32 or Int64 column with statistics of the matching type, *)
(* min and max are the decimal text of the stored values when present,     *)
(* null_count is the stored null count and distinct_count is absent;       *)
(* min=-5, max=42, null_count=3 gives ("-5", "42", 3, absent).             *)
C14_IntegerProjection ==
    (chunk.physical_type \in {"Int32", "Int64"} /\ Matching)
    => /\ StatsDone => snapshot.stats = IntSnapshot(Stored)
       /\ ViewDone => snapshot.view = IntSnapshot(Stored)

C14_Witness ==
    /\ chunk.physical_type = "Int32"
    /\ Matching
    /\ Stored.min_value = <<0 - 5>> /\ Stored.max_value = <<42>>
    /\ Stored.null_count = <<3>> /\ Stored.distinct_count = <<2>>
    /\ snapshot.stats.stats = [min |-> <<"-5">>, max |-> <<"42">>, null_count |-> <<3>>,
                               distinct_values |-> <<>>]
    /\ snapshot.view = snapshot.stats

BoolSnapshot(st) ==
    [tag |-> "Ok",
     stats |-> [min |-> IF st.min_value = <<>> THEN <<>>
                        ELSE <<IF st.min_value[1] THEN "true" ELSE "false">>,
                max |-> IF st.max_value = <<>> THEN <<>>
                        ELSE <<IF st.max_value[1] THEN "true" ELSE "false">>,
                null_count |-> st.null_count,
                distinct_values |-> <<>>]]

(* C15 as stated: for a Boolean column both projections give min and max   *)
(* as the boolean literal when present, null_count from the stored         *)
(* statistics, and distinct_count absent even when one is stored.          *)
C15_BooleanProjection ==
    (chunk.physical_type = "Boolean" /\ Matching)
    => /\ StatsDone => snapshot.stats = BoolSnapshot(Stored)
       /\ ViewDone => snapshot.view = BoolSnapshot(Stored)

ExpectedText(bs) ==
    IF bs = <<65>> THEN "A"
    ELSE IF bs = <<195, 169>> THEN "<U+233>"
    ELSE IF bs = <<>> THEN ""
    ELSE "UNK"

BytesSnapshot(st) ==
    [tag |-> "Ok",
     stats |-> [min |-> IF st.min_value = <<>> THEN <<>> ELSE <<ExpectedText(st.min_value[1])>>,
                max |-> IF st.max_value = <<>> THEN <<>> ELSE <<ExpectedText(st.max_value[1])>>,
                null_count |-> st.null_count,
                distinct_values |-> st.distinct_count]]

(* C16: for a ByteArray or FixedLenByteArray column a stored min or max    *)
(* that is not valid UTF-8 projects to "UNK", a valid one to its text, a   *)
(* missing one to absent, and null_count and distinct_count are copied.    *)
C16_ByteArrayProjection ==
    (chunk.physical_type \in {"ByteArray", "FixedLenByteArray"} /\ Matching)
    => /\ StatsDone => snapshot.stats = BytesSnapshot(Stored)
       /\ ViewDone => snapshot.view = BytesSnapshot(Stored)

C16_Witness ==
    /\ chunk.physical_type = "FixedLenByteArray"
    /\ Matching
    /\ Stored.min_value = <<(<<255>>)>>
    /\ Stored.max_value = <<(<<195, 169>>)>>
    /\ Stored.null_count = <<3>> /\ Stored.distinct_count = <<2>>
    /\ snapshot.stats.stats = [min |-> <<"UNK">>, max |-> <<"<U+233>">>,
                               null_count |-> <<3>>, distinct_values |-> <<2>>]
    /\ snapshot.view = snapshot.stats

(* C21 as stated: for every column chunk, of every physical type and with  *)
(* every statistics input, ColumnChunkMetaDataExt::stats and               *)
(* ColumnChunkDetailView::from return the same snapshot.                   *)
C21_ProjectorsAgree ==
    (StatsDone /\ ViewDone) => snapshot.stats = snapshot.view

----------------------------------------------------------------------------
(* Properties of sample_column (SampleSpec) *)

(* C20 as stated: sample_column never aborts: a failure of the reader, the *)
(* row group, the column reader or the decoding comes back as an error     *)
(* result, and an Int96 column gives the fixed "not supported" message.    *)
C20_SampleNeverAborts ==
    sample_out.tag # "-"
    => /\ sample_out.tag # "Panic"
       /\ sample_in.fail \in {"Reader", "RowGroup", "ColumnReader"} => sample_out.tag = "Err"
       /\ (sample_in.fail = "ReadRecords" /\ sample_in.physical_type # "Int96")
            => sample_out.tag = "Err"
       /\ (sample_in.fail = "None" /\ sample_in.physical_type = "Int96")
            => sample_out = [tag |-> "Text", text |-> "INT96 sampling not supported"]

====
